---- MODULE Spec2Model ----
(***************************************************************************)
(* Model of src/app.py, the Streamlit dashboard script.  One run of the    *)
(* script is a straight line of steps; every step is one action, and the   *)
(* program counter pc names the next line to execute.  An uncaught Python  *)
(* exception ends the run in pc = "crashed" with the exception recorded in *)
(* error.  Streamlit re-executes the script from the top after every       *)
(* widget interaction (action Rerun).                                      *)
(*                                                                         *)
(* Numbers.  Means and standardized values are exact rationals             *)
(* [num, den]; den = 0 encodes the IEEE specials (0/0 = NaN, 1/0 = inf).   *)
(* A standardized value (v - mean)/sqrt(var) is kept as its sign and its   *)
(* square, so no square root is ever taken.  Text is a sequence of         *)
(* one-token strings.                                                      *)
(***************************************************************************)
EXTENDS Integers, Sequences, FiniteSets

VARIABLES
    pc,               \* the next step of the script, "done" or "crashed"
    disk,             \* the files as pd.read_csv found them (lines 40, 41, 100)
    df,               \* line 40: whether the transactions are loaded
    rfm,              \* line 41: the customer table
    selected_cluster, \* line 53
    filtered_rfm,     \* line 54
    means,            \* lines 58-60: the three .mean() values
    metrics,          \* lines 58-60: the three formatted metric texts
    X,                \* line 65: the standardized matrix
    pca_df,           \* lines 68-69
    shown_rules,      \* line 103: the frame given to st.dataframe
    download,         \* line 108: the text given to st.download_button
    out,              \* the widgets rendered so far, in order
    error             \* the uncaught exception, if any, and the step that raised it

vars == <<pc, disk, df, rfm, selected_cluster, filtered_rfm, means, metrics,
          X, pca_df, shown_rules, download, out, error>>

(***************************************************************************)
(* Bounds of the model and the value domains the input files draw from.    *)
(***************************************************************************)
MaxRows == 3
MaxExtraRules == 1

Recencies == {1, 2}
Frequencies == {1}
Monetaries == {10, 40}
Clusters == {0, 1}

HeadN == 10

Features == <<"Recency", "Frequency", "Monetary">>
RfmHeader == <<"Recency", "Frequency", "Monetary", "Cluster">>
RuleColumns == <<"antecedents", "consequents", "support", "confidence", "lift">>

(***************************************************************************)
(* Generic helpers.                                                        *)
(***************************************************************************)
Abs(n) == IF n < 0 THEN -n ELSE n

Sign(n) == IF n < 0 THEN -1 ELSE IF n > 0 THEN 1 ELSE 0

RECURSIVE GCD(_, _)
GCD(a, b) == IF b = 0 THEN a ELSE GCD(b, a % b)

RECURSIVE SumSeq(_)
SumSeq(s) == IF s = <<>> THEN 0 ELSE Head(s) + SumSeq(Tail(s))

RECURSIVE SeqsUpTo(_, _)
SeqsUpTo(S, n) ==
    IF n = 0 THEN {<<>>}
    ELSE LET shorter == SeqsUpTo(S, n - 1)
         IN  shorter \cup {Append(s, x) : s \in {t \in shorter : Len(t) = n - 1}, x \in S}

(***************************************************************************)
(* Floating-point values as exact rationals with the IEEE specials.        *)
(***************************************************************************)
Rat(n, d) ==
    IF d = 0 THEN [num |-> Sign(n), den |-> 0]
    ELSE LET g == GCD(Abs(n), Abs(d))
         IN  [num |-> Sign(d) * (n \div g), den |-> Abs(d) \div g]

NaN == [num |-> 0, den |-> 0]

IsFinite(x) == x.den # 0

RatSub(a, b) ==
    IF a.den = 0 \/ b.den = 0 THEN NaN
    ELSE Rat(a.num * b.den - b.num * a.den, a.den * b.den)

RatMul(a, b) ==
    IF a = NaN \/ b = NaN THEN NaN
    ELSE Rat(a.num * b.num, a.den * b.den)

RatAdd(a, b) ==
    IF a.den = 0 \/ b.den = 0 THEN NaN
    ELSE Rat(a.num * b.den + b.num * a.den, a.den * b.den)

\* a / b with IEEE results: x/0 = inf, 0/0 = NaN.
RatDiv(a, b) ==
    IF a = NaN \/ b = NaN \/ (a.den = 0 /\ b.den = 0) THEN NaN
    ELSE Rat(a.num * b.den, a.den * b.num)

RECURSIVE SumRat(_)
SumRat(s) == IF s = <<>> THEN Rat(0, 1) ELSE RatAdd(Head(s), SumRat(Tail(s)))

(***************************************************************************)
(* pandas: data frames, read_csv, to_csv, column access, boolean filter.   *)
(* A frame is its index labels and its rows, position by position.         *)
(***************************************************************************)
EmptyFrame == [columns |-> <<>>, index |-> <<>>, rows |-> <<>>]

RangeIndex(n) == [i \in 1..n |-> i - 1]

NoFile == [exists |-> FALSE, header |-> <<>>, lines |-> <<>>]

\* pd.read_csv(path): one row per line, one column per header cell, and a
\* fresh RangeIndex.
ReadCsv(file) ==
    [columns |-> file.header,
     index |-> RangeIndex(Len(file.lines)),
     rows  |-> [i \in 1..Len(file.lines) |->
                  [c \in {file.header[k] : k \in 1..Len(file.header)} |->
                      file.lines[i][CHOOSE k \in 1..Len(file.header) : file.header[k] = c]]]]

\* frame.to_csv(index=False): the header and one line per row, the index
\* dropped.
ToCsv(frame) ==
    [exists |-> TRUE,
     header |-> frame.columns,
     lines  |-> [i \in 1..Len(frame.rows) |->
                   [k \in 1..Len(frame.columns) |-> frame.rows[i][frame.columns[k]]]]]

\* frame[col]: a Series carrying the frame's index.
Column(frame, col) ==
    [index |-> frame.index, values |-> [i \in 1..Len(frame.rows) |-> frame.rows[i][col]]]

RECURSIVE KeepPositions(_, _, _)
KeepPositions(s, keep, i) ==
    IF i > Len(s) THEN <<>>
    ELSE (IF keep[i] THEN <<s[i]>> ELSE <<>>) \o KeepPositions(s, keep, i + 1)

\* Mutant of ClusterMask: >= where the code compares with ==.
ClusterMaskLoose(frame, label) ==
    [i \in 1..Len(frame.rows) |-> frame.rows[i].Cluster >= label]

\* rfm["Cluster"] == selected_cluster : the boolean mask, position by position.
ClusterMask(frame, label) ==
    [i \in 1..Len(frame.rows) |-> frame.rows[i].Cluster = label]

\* frame[mask]: the rows where the mask is true, in order, each keeping its
\* index label; a new frame.
Filter(frame, mask) ==
    [columns |-> frame.columns,
     index |-> KeepPositions(frame.index, mask, 1),
     rows  |-> KeepPositions(frame.rows, mask, 1)]

\* Mutant of Mean: 0 for an empty series.
MeanZeroOnEmpty(values) ==
    IF Len(values) = 0 THEN Rat(0, 1) ELSE Rat(SumSeq(values), Len(values))

\* series.mean(): sum / count; 0/0 = NaN on an empty series.
Mean(values) == Rat(SumSeq(values), Len(values))

\* series.unique() then sorted(): the distinct values in ascending order.
RECURSIVE SortedSeq(_)
SortedSeq(S) ==
    IF S = {} THEN <<>>
    ELSE LET m == CHOOSE x \in S : \A y \in S : x <= y
         IN  <<m>> \o SortedSeq(S \ {m})

SortedUnique(values) == SortedSeq({values[i] : i \in 1..Len(values)})

\* What st.selectbox returns when it has no options: None, which equals no
\* cluster label.
NoLabel == -1

\* Mutant of ClusterOptions: every label there is, in the table or not.
AllClusterOptions(frame) == SortedSeq(Clusters)

\* sorted(rfm["Cluster"].unique()): the options of the cluster selectbox.
ClusterOptions(frame) == SortedUnique(Column(frame, "Cluster").values)

(***************************************************************************)
(* Python format specifications ".1f" and ",.2f".                          *)
(***************************************************************************)
Digits == <<"0", "1", "2", "3", "4", "5", "6", "7", "8", "9">>

RECURSIVE Pow10(_)
Pow10(k) == IF k = 0 THEN 1 ELSE 10 * Pow10(k - 1)

\* The decimal digits of n >= 0, at least `width` of them.
RECURSIVE ToDigits(_, _)
ToDigits(n, width) ==
    IF n < 10 /\ width <= 1 THEN <<Digits[n + 1]>>
    ELSE Append(ToDigits(n \div 10, width - 1), Digits[(n % 10) + 1])

\* The integer part with "," between groups of three digits.
RECURSIVE Grouped(_)
Grouped(n) ==
    IF n < 1000 THEN ToDigits(n, 1)
    ELSE Grouped(n \div 1000) \o <<",">> \o ToDigits(n % 1000, 3)

\* n / d (n >= 0, d > 0) rounded to the nearest integer, ties to even.
RoundHalfEven(n, d) ==
    LET q == n \div d
        r == n % d
    IN  IF 2 * r > d \/ (2 * r = d /\ q % 2 = 1) THEN q + 1 ELSE q

\* format(x, ".<places>f") or format(x, ",.<places>f").
FormatFixed(x, places, grouping) ==
    IF x.den = 0
    THEN (IF x.num = 0 THEN <<"n", "a", "n">>
          ELSE (IF x.num < 0 THEN <<"-">> ELSE <<>>) \o <<"i", "n", "f">>)
    ELSE LET scaled   == RoundHalfEven(Abs(x.num) * Pow10(places), x.den)
             intPart  == scaled \div Pow10(places)
             fracPart == scaled % Pow10(places)
         IN  (IF x.num < 0 THEN <<"-">> ELSE <<>>)
             \o (IF grouping THEN Grouped(intPart) ELSE ToDigits(intPart, 1))
             \o <<".">> \o ToDigits(fracPart, places)

(***************************************************************************)
(* sklearn: StandardScaler and PCA.                                        *)
(***************************************************************************)
\* A standardized value z, kept as sign(z) and z^2.
Zero == [sgn |-> 0, sq |-> Rat(0, 1)]

\* Mutant of Variance: the sample variance (divisor n - 1).
VarianceDdof1(values) ==
    LET m == Mean(values)
        d == [i \in 1..Len(values) |-> RatSub(Rat(values[i], 1), m)]
    IN  RatDiv(SumRat([i \in 1..Len(values) |-> RatMul(d[i], d[i])]),
               Rat(Len(values) - 1, 1))

\* The variance StandardScaler.fit computes: the mean of the squared
\* deviations from the column mean (divisor n).
Variance(values) ==
    LET m == Mean(values)
        d == [i \in 1..Len(values) |-> RatSub(Rat(values[i], 1), m)]
    IN  RatDiv(SumRat([i \in 1..Len(values) |-> RatMul(d[i], d[i])]),
               Rat(Len(values), 1))

\* Mutant of HandleZerosInScale: a zero scale is kept.
KeepZeroScale(var) == var

\* scale_ = sqrt(var_), with a zero scale replaced by 1; here on squares.
HandleZerosInScale(var) == IF var = Rat(0, 1) THEN Rat(1, 1) ELSE var

\* (v - mean_) / scale_
Standardized(v, mean, scaleSq) ==
    LET dev == RatSub(Rat(v, 1), mean)
    IN  [sgn |-> Sign(dev.num), sq |-> RatDiv(RatMul(dev, dev), scaleSq)]

\* StandardScaler().fit_transform(frame[cols]): a new matrix, one row per
\* record, each column standardized on its own.
FitTransform(frame, cols) ==
    LET col(c)  == Column(frame, c).values
        mean_   == [c \in cols |-> Mean(col(c))]
        scale2_ == [c \in cols |-> HandleZerosInScale(Variance(col(c)))]
    IN  [i \in 1..Len(frame.rows) |->
            [c \in cols |-> Standardized(frame.rows[i][c], mean_[c], scale2_[c])]]

FeatureSet == {Features[k] : k \in 1..Len(Features)}

AllFinite(matrix) ==
    \A i \in 1..Len(matrix) : \A c \in DOMAIN matrix[i] : IsFinite(matrix[i][c].sq)

\* Mutant of PcaAccepts: one record is enough.
PcaAcceptsAnyRows(matrix) == AllFinite(matrix) /\ Len(matrix) >= 1

\* PCA(n_components=2).fit_transform(matrix) raises ValueError on NaN or
\* infinite input and when n_components exceeds min(n_samples, n_features).
PcaAccepts(matrix) ==
    AllFinite(matrix) /\ 2 <= Len(matrix) /\ 2 <= Len(Features)

\* The coordinates of one standardized record on the two leading principal
\* axes.  The eigendecomposition is real-valued; a coordinate is kept as
\* the axis it lies on and the record it projects.
PcaCoords(matrix) ==
    [i \in 1..Len(matrix) |->
        [PC1 |-> [axis |-> 1, of |-> matrix[i]], PC2 |-> [axis |-> 2, of |-> matrix[i]]]]

\* Mutant of NewFrame: the index labels start at 1.
NewFrameOneBased(coords, columns) ==
    [columns |-> columns, index |-> [i \in 1..Len(coords) |-> i], rows |-> coords]

\* pd.DataFrame(coords, columns=["PC1", "PC2"]): a frame with a fresh
\* RangeIndex.
NewFrame(coords, columns) ==
    [columns |-> columns, index |-> RangeIndex(Len(coords)), rows |-> coords]

\* frame[col] = series: the values are aligned on the index labels; a label
\* the series lacks gets a missing value.
SetColumn(frame, col, series) ==
    [columns |-> IF \E k \in 1..Len(frame.columns) : frame.columns[k] = col
                 THEN frame.columns ELSE Append(frame.columns, col),
     index |-> frame.index,
     rows  |-> [p \in 1..Len(frame.rows) |->
                  LET hits == {q \in 1..Len(series.index) : series.index[q] = frame.index[p]}
                      v    == IF hits = {} THEN NoLabel
                              ELSE series.values[CHOOSE q \in hits : TRUE]
                  IN  [c \in (DOMAIN frame.rows[p]) \cup {col} |->
                          IF c = col THEN v ELSE frame.rows[p][c]]]]

(***************************************************************************)
(* The association rules file and its clean-up for display.                *)
(***************************************************************************)
RulesHeader == <<"antecedents", "consequents", "support", "confidence", "lift", "leverage">>

\* The text of a serialized frozenset with one item, token by token.
FrozenSetText(item) == <<"frozenset", "(", "{", item, "}", ")">>

\* Line i of rules_sorted.csv; support, confidence and lift are in
\* thousandths.
RuleLine(i) ==
    <<FrozenSetText("'Shirt'"), FrozenSetText("'Jeans'"), i, 500 + i, 2000 - i, i>>

RulesFile(n) == [exists |-> TRUE, header |-> RulesHeader, lines |-> [i \in 1..n |-> RuleLine(i)]]

\* str.replace(old, ""): every occurrence of the token removed.
StrRemove(text, old) == SelectSeq(text, LAMBDA t : t # old)

\* str.strip(chars): leading and trailing tokens among chars removed.
RECURSIVE LStrip(_, _)
LStrip(text, chars) ==
    IF text # <<>> /\ Head(text) \in chars THEN LStrip(Tail(text), chars) ELSE text

RECURSIVE RStrip(_, _)
RStrip(text, chars) ==
    IF text # <<>> /\ text[Len(text)] \in chars
    THEN RStrip(SubSeq(text, 1, Len(text) - 1), chars) ELSE text

StrStrip(text, chars) == RStrip(LStrip(text, chars), chars)

CleanSet(text) == StrStrip(StrRemove(text, "frozenset"), {"(", ")", "{", "}"})

\* frame.head(n): the first n rows, or all of them when there are fewer.
HeadFrame(frame, n) ==
    LET k == IF Len(frame.rows) < n THEN Len(frame.rows) ELSE n
    IN  [columns |-> frame.columns,
         index |-> SubSeq(frame.index, 1, k), rows |-> SubSeq(frame.rows, 1, k)]

\* frame[cols]: the named columns only.
SelectColumns(frame, cols) ==
    [columns |-> cols,
     index |-> frame.index,
     rows  |-> [i \in 1..Len(frame.rows) |->
                  [c \in {cols[k] : k \in 1..Len(cols)} |-> frame.rows[i][c]]]]

\* Lines 101-103: both set columns cleaned, then the five display columns
\* of the first ten rules.
RulesTable(rules) ==
    LET cleaned == [columns |-> rules.columns,
                    index |-> rules.index,
                    rows  |-> [i \in 1..Len(rules.rows) |->
                                 [rules.rows[i] EXCEPT
                                    !.antecedents = CleanSet(@),
                                    !.consequents = CleanSet(@)]]]
    IN  HeadFrame(SelectColumns(cleaned, RuleColumns), HeadN)

(***************************************************************************)
(* The files the script reads.                                             *)
(***************************************************************************)
RfmLines ==
    {<<r, f, m, c>> : r \in Recencies, f \in Frequencies, m \in Monetaries, c \in Clusters}

RfmFiles ==
    {NoFile} \cup {[exists |-> TRUE, header |-> RfmHeader, lines |-> l] :
                      l \in SeqsUpTo(RfmLines, MaxRows)}

RuleCounts == {0} \cup ((HeadN - 1)..(HeadN + MaxExtraRules))

RulesFiles == {NoFile} \cup {RulesFile(n) : n \in RuleCounts}

\* The files as the run has found them so far; a file is looked at when the
\* script opens it.
NoFiles == [clothing |-> FALSE, rfm |-> NoFile, rules |-> NoFile]

NoError == [type |-> "None", at |-> "None"]

NoMeans == [c \in FeatureSet |-> NaN]

Init ==
    /\ pc = "start"
    /\ disk = NoFiles
    /\ df = FALSE
    /\ rfm = EmptyFrame
    /\ selected_cluster = NoLabel
    /\ filtered_rfm = EmptyFrame
    /\ means = NoMeans
    /\ metrics = <<>>
    /\ X = <<>>
    /\ pca_df = EmptyFrame
    /\ shown_rules = EmptyFrame
    /\ download = NoFile
    /\ out = <<>>
    /\ error = NoError

\* An uncaught exception: the run ends at the line that raised it.
Raise(type, at) ==
    /\ pc' = "crashed"
    /\ error' = [type |-> type, at |-> at]

\* Lines 9-37: page configuration, style sheet, logo and title.
Header ==
    /\ pc = "start"
    /\ pc' = "load_df"
    /\ out' = out \o <<"markdown", "image", "title">>
    /\ UNCHANGED <<disk, df, rfm, selected_cluster, filtered_rfm, means, metrics,
                   X, pca_df, shown_rules, download, error>>

\* Line 40: the transaction file is read; its rows are not modelled.
LoadDf ==
    /\ pc = "load_df"
    /\ \E present \in BOOLEAN : disk' = [disk EXCEPT !.clothing = present]
    /\ IF disk'.clothing
       THEN /\ df' = TRUE
            /\ pc' = "load_rfm"
            /\ UNCHANGED error
       ELSE /\ Raise("FileNotFoundError", "load_df")
            /\ UNCHANGED df
    /\ UNCHANGED <<rfm, selected_cluster, filtered_rfm, means, metrics,
                   X, pca_df, shown_rules, download, out>>

\* Line 41: the customer table is read.
LoadRfm ==
    /\ pc = "load_rfm"
    /\ \E file \in RfmFiles : disk' = [disk EXCEPT !.rfm = file]
    /\ IF disk'.rfm.exists
       THEN /\ rfm' = ReadCsv(disk'.rfm)
            /\ pc' = "sidebar"
            /\ UNCHANGED error
       ELSE /\ Raise("FileNotFoundError", "load_rfm")
            /\ UNCHANGED rfm
    /\ UNCHANGED <<df, selected_cluster, filtered_rfm, means, metrics,
                   X, pca_df, shown_rules, download, out>>

\* Lines 44-49: the country and season filters and the caption naming them.
Sidebar ==
    /\ pc = "sidebar"
    /\ pc' = "select"
    /\ out' = out \o <<"sidebar.header", "sidebar.selectbox", "sidebar.selectbox", "markdown">>
    /\ UNCHANGED <<disk, df, rfm, selected_cluster, filtered_rfm, means, metrics,
                   X, pca_df, shown_rules, download, error>>

\* Mutant of SelectCluster: the filtered frame is assigned back to rfm.
SelectClusterOverwrite ==
    /\ pc = "select"
    /\ LET options == ClusterOptions(rfm)
       IN  /\ \/ /\ options = <<>>
                 /\ selected_cluster' = NoLabel
              \/ \E k \in 1..Len(options) : selected_cluster' = options[k]
           /\ filtered_rfm' = Filter(rfm, ClusterMask(rfm, selected_cluster'))
           /\ rfm' = filtered_rfm'
    /\ pc' = "metrics"
    /\ out' = out \o <<"subheader", "selectbox", "dataframe">>
    /\ UNCHANGED <<disk, df, means, metrics, X, pca_df, shown_rules, download, error>>

\* Lines 52-55: the user picks one of the cluster labels of the table (None
\* when there is none) and the records of that cluster are shown.
SelectCluster ==
    /\ pc = "select"
    /\ LET options == ClusterOptions(rfm)
       IN  /\ \/ /\ options = <<>>
                 /\ selected_cluster' = NoLabel
              \/ \E k \in 1..Len(options) : selected_cluster' = options[k]
           /\ filtered_rfm' = Filter(rfm, ClusterMask(rfm, selected_cluster'))
    /\ pc' = "metrics"
    /\ out' = out \o <<"subheader", "selectbox", "dataframe">>
    /\ UNCHANGED <<disk, df, rfm, means, metrics, X, pca_df, shown_rules, download, error>>

\* Lines 57-60: the three averages of the selected cluster, formatted.
Metrics ==
    /\ pc = "metrics"
    /\ means' = [c \in FeatureSet |-> Mean(Column(filtered_rfm, c).values)]
    /\ metrics' = <<FormatFixed(means'.Recency, 1, FALSE) \o <<" days">>,
                    FormatFixed(means'.Frequency, 1, FALSE) \o <<" purchases">>,
                    <<"$">> \o FormatFixed(means'.Monetary, 2, TRUE)>>
    /\ pc' = "scale"
    /\ out' = out \o <<"metric", "metric", "metric">>
    /\ UNCHANGED <<disk, df, rfm, selected_cluster, filtered_rfm,
                   X, pca_df, shown_rules, download, error>>

\* Lines 63-65: the three features standardized into a new matrix.
\* StandardScaler raises ValueError on a table with no rows.
Standardize ==
    /\ pc = "scale"
    /\ IF Len(rfm.rows) >= 1
       THEN /\ X' = FitTransform(rfm, FeatureSet)
            /\ pc' = "pca"
            /\ out' = Append(out, "subheader")
            /\ UNCHANGED error
       ELSE /\ Raise("ValueError", "scale")
            /\ out' = Append(out, "subheader")
            /\ UNCHANGED X
    /\ UNCHANGED <<disk, df, rfm, selected_cluster, filtered_rfm, means, metrics,
                   pca_df, shown_rules, download>>

\* Lines 66-69: the projection, and each point labelled with the cluster of
\* the record with the same index label.
Project ==
    /\ pc = "pca"
    /\ IF PcaAccepts(X)
       THEN /\ pca_df' = SetColumn(NewFrame(PcaCoords(X), <<"PC1", "PC2">>),
                                   "Cluster", Column(rfm, "Cluster"))
            /\ pc' = "charts"
            /\ UNCHANGED error
       ELSE /\ Raise("ValueError", "pca")
            /\ UNCHANGED pca_df
    /\ UNCHANGED <<disk, df, rfm, selected_cluster, filtered_rfm, means, metrics,
                   X, shown_rules, download, out>>

\* Lines 71-95: the scatter plot and the four transaction charts.
Charts ==
    /\ pc = "charts"
    /\ pc' = "rules"
    /\ out' = out \o <<"pyplot", "subheader", "bar_chart", "subheader", "line_chart",
                        "subheader", "bar_chart", "subheader", "area_chart">>
    /\ UNCHANGED <<disk, df, rfm, selected_cluster, filtered_rfm, means, metrics,
                   X, pca_df, shown_rules, download, error>>

\* Mutant of Rules: no try/except around the read.
RulesUnguarded ==
    /\ pc = "rules"
    /\ \E file \in RulesFiles : disk' = [disk EXCEPT !.rules = file]
    /\ IF disk'.rules.exists
       THEN /\ shown_rules' = RulesTable(ReadCsv(disk'.rules))
            /\ out' = out \o <<"subheader", "dataframe">>
            /\ pc' = "download"
            /\ UNCHANGED error
       ELSE /\ Raise("FileNotFoundError", "rules")
            /\ out' = Append(out, "subheader")
            /\ UNCHANGED shown_rules
    /\ UNCHANGED <<df, rfm, selected_cluster, filtered_rfm, means, metrics,
                   X, pca_df, download>>

\* Lines 98-105: the rules table, or a warning when the file is missing.
Rules ==
    /\ pc = "rules"
    /\ \E file \in RulesFiles : disk' = [disk EXCEPT !.rules = file]
    /\ IF disk'.rules.exists
       THEN /\ shown_rules' = RulesTable(ReadCsv(disk'.rules))
            /\ out' = out \o <<"subheader", "dataframe">>
       ELSE /\ out' = out \o <<"subheader", "warning">>
            /\ UNCHANGED shown_rules
    /\ pc' = "download"
    /\ UNCHANGED <<df, rfm, selected_cluster, filtered_rfm, means, metrics,
                   X, pca_df, download, error>>

\* Line 108: the customer table serialized for the download button.
Download ==
    /\ pc = "download"
    /\ download' = ToCsv(rfm)
    /\ pc' = "footer"
    /\ out' = Append(out, "download_button")
    /\ UNCHANGED <<disk, df, rfm, selected_cluster, filtered_rfm, means, metrics,
                   X, pca_df, shown_rules, error>>

\* Lines 110-120: the caption and the deployment note.
Footer ==
    /\ pc = "footer"
    /\ pc' = "done"
    /\ out' = out \o <<"caption", "markdown">>
    /\ UNCHANGED <<disk, df, rfm, selected_cluster, filtered_rfm, means, metrics,
                   X, pca_df, shown_rules, download, error>>

\* A widget interaction: Streamlit runs the script again from the top.
Rerun ==
    /\ pc \in {"done", "crashed"}
    /\ pc' = "start"
    /\ df' = FALSE
    /\ rfm' = EmptyFrame
    /\ selected_cluster' = NoLabel
    /\ filtered_rfm' = EmptyFrame
    /\ means' = NoMeans
    /\ metrics' = <<>>
    /\ X' = <<>>
    /\ pca_df' = EmptyFrame
    /\ shown_rules' = EmptyFrame
    /\ download' = NoFile
    /\ out' = <<>>
    /\ error' = NoError
    /\ disk' = NoFiles

Next ==
    \/ Header
    \/ LoadDf
    \/ LoadRfm
    \/ Sidebar
    \/ SelectCluster
    \/ Metrics
    \/ Standardize
    \/ Project
    \/ Charts
    \/ Rules
    \/ Download
    \/ Footer
    \/ Rerun

Spec == Init /\ [][Next]_vars

(***************************************************************************)
(* Vocabulary of the properties.                                           *)
(***************************************************************************)
Steps == <<"start", "load_df", "load_rfm", "sidebar", "select", "metrics", "scale",
           "pca", "charts", "rules", "download", "footer", "done">>

Pos(step) == CHOOSE k \in 1..Len(Steps) : Steps[k] = step

\* The step the run is at: the next one to execute, or the one that raised.
At == IF pc = "crashed" THEN error.at ELSE pc

\* The step has been executed to its end in this run.
Past(step) == Pos(At) > Pos(step)

InSeq(x, s) == \E k \in 1..Len(s) : s[k] = x

RECURSIVE SumOver(_, _)
SumOver(S, f) ==
    IF S = {} THEN 0
    ELSE LET i == CHOOSE j \in S : TRUE IN f[i] + SumOver(S \ {i}, f)

N == Len(rfm.rows)

\* The values of one feature over the whole table, by position.
Feature(c) == [i \in 1..N |-> rfm.rows[i][c]]

\* The positions of the records of the selected cluster.
Selected == {i \in 1..N : rfm.rows[i].Cluster = selected_cluster}

\* N * v_i - sum for every record i: the deviations of a feature from its
\* mean, times N.
Devs(c) ==
    LET v == Feature(c)
        s == SumSeq(v)
    IN  [i \in 1..N |-> N * v[i] - s]

\* The sum of the squares of a sequence; for Devs(c), 0 exactly when the
\* feature is constant.
Squares(d) == SumSeq([i \in 1..Len(d) |-> d[i] * d[i]])

(***************************************************************************)
(* C1: on a non-empty table the summary of the selected cluster is over    *)
(* exactly the records of that cluster: the filtered frame holds those     *)
(* records and no other, its length is their number, and each average is   *)
(* the sum of the feature over them divided by their number.               *)
(***************************************************************************)
C1_SummaryOverExactSubset ==
    (Past("metrics") /\ N > 0) =>
        /\ Selected # {}
        /\ Len(filtered_rfm.rows) = Cardinality(Selected)
        /\ {filtered_rfm.index[k] + 1 : k \in 1..Len(filtered_rfm.index)} = Selected
        /\ \A c \in FeatureSet :
              /\ means[c].den > 0
              /\ means[c].num * Cardinality(Selected)
                    = means[c].den * SumOver(Selected, Feature(c))

\* Three records, two of them in the selected cluster with monetary 10 and
\* 40 (average 25), the third in the other cluster.
C1_Witness ==
    /\ Past("metrics")
    /\ N = 3
    /\ Cardinality(Selected) = 2
    /\ means.Monetary = [num |-> 25, den |-> 1]
    /\ \E i \in (1..N) \ Selected : rfm.rows[i].Monetary = 40

(***************************************************************************)
(* C2: a selection that matches no record does not raise: the filtered     *)
(* frame is empty (count 0), every average is NaN, and the three metrics   *)
(* are formatted as "nan days", "nan purchases" and "$nan".                *)
(***************************************************************************)
C2_EmptySelectionYieldsNaN ==
    /\ At \in {"select", "metrics"} => pc # "crashed"
    /\ (Past("metrics") /\ Selected = {}) =>
          /\ Len(filtered_rfm.rows) = 0
          /\ \A c \in FeatureSet : means[c].num = 0 /\ means[c].den = 0
          /\ metrics = << <<"n", "a", "n", " days">>,
                         <<"n", "a", "n", " purchases">>,
                         <<"$", "n", "a", "n">> >>

C2_Witness ==
    /\ pc = "scale"
    /\ Selected = {}
    /\ metrics[3] = <<"$", "n", "a", "n">>

(***************************************************************************)
(* C3 (as amended): projecting a table of 0 or 1 records ends the run with *)
(* a ValueError raised by the standardization (0 records) or by the        *)
(* projection (1 record); no projected frame is produced and no other      *)
(* error is raised.                                                        *)
(***************************************************************************)
C3_FewRecordsValueError ==
    (Past("load_rfm") /\ N < 2) =>
        /\ ~Past("pca")
        /\ pca_df = EmptyFrame
        /\ ~InSeq("pyplot", out)
        /\ pc = "crashed" =>
              /\ error.type = "ValueError"
              /\ error.at = (IF N = 0 THEN "scale" ELSE "pca")

C3_Witness ==
    /\ N = 1
    /\ pc = "crashed"
    /\ error = [type |-> "ValueError", at |-> "pca"]
    /\ Len(X) = 1

\* C3 as stated: the failure is an InsufficientDataError.
C3_InsufficientDataError ==
    (Past("load_rfm") /\ N < 2) =>
        /\ ~Past("pca")
        /\ pc = "crashed" => error.type = "InsufficientDataError"

(***************************************************************************)
(* C4: after a successful projection the projected frame has one point per *)
(* record, in the order of the records: point i is the projection of       *)
(* record i and carries the cluster label of record i.                     *)
(***************************************************************************)
C4_ProjectionPreservesOrder ==
    Past("pca") =>
        /\ Len(pca_df.rows) = N
        /\ \A i \in 1..N :
              /\ pca_df.rows[i].Cluster = rfm.rows[i].Cluster
              /\ pca_df.rows[i].PC1.of = X[i]
              /\ pca_df.rows[i].PC2.of = X[i]
              /\ \A c \in FeatureSet : X[i][c].sgn = Sign(Devs(c)[i])

\* Three projected records whose labels are not the same read backwards or
\* shifted by one.
C4_Witness ==
    /\ Past("pca")
    /\ N = 3
    /\ rfm.rows[1].Cluster = 0
    /\ rfm.rows[2].Cluster = 1
    /\ rfm.rows[3].Cluster = 1
    /\ rfm.rows[1].Monetary # rfm.rows[3].Monetary

(***************************************************************************)
(* C5: after the standardization a feature with the same value in every    *)
(* record is zero in every record, and no entry of the matrix handed to    *)
(* the projection is NaN or infinite.                                      *)
(***************************************************************************)
C5_ConstantFeatureStandardizedToZero ==
    Past("scale") =>
        /\ Len(X) = N
        /\ \A c \in FeatureSet :
              (\A i, j \in 1..N : rfm.rows[i][c] = rfm.rows[j][c]) =>
                  \A i \in 1..N : X[i][c] = Zero
        /\ \A i \in 1..N : \A c \in FeatureSet :
              X[i][c].sq.den # 0

\* Recency is constant over two or more records while monetary is not.
C5_Witness ==
    /\ Past("scale")
    /\ N >= 2
    /\ Squares(Devs("Recency")) = 0
    /\ Squares(Devs("Monetary")) # 0
    /\ \A i \in 1..N : X[i].Recency = Zero

(***************************************************************************)
(* C6: from the load to the end of the run the customer table is the table *)
(* read from the file, cell by cell, and the text handed to the download   *)
(* button is the file that was read, whatever cluster was selected.        *)
(***************************************************************************)
C6_TableReadOnly ==
    /\ Past("load_rfm") =>
          /\ rfm.columns = disk.rfm.header
          /\ N = Len(disk.rfm.lines)
          /\ \A i \in 1..N : \A k \in 1..Len(RfmHeader) :
                rfm.rows[i][RfmHeader[k]] = disk.rfm.lines[i][k]
    /\ Past("download") => download = disk.rfm

\* A finished run over three records of which the selected cluster holds one.
C6_Witness ==
    /\ pc = "done"
    /\ N = 3
    /\ Len(filtered_rfm.rows) = 1
    /\ Len(download.lines) = 3

(***************************************************************************)
(* C8 (as amended): for a feature that is not constant, the standardized   *)
(* value of record i is (v - mean) / stddev with the population standard   *)
(* deviation (divisor N): z has the sign of v - mean and                   *)
(* z^2 * sum_j (N v_j - S)^2 = N * (N v_i - S)^2, S the feature's sum.     *)
(***************************************************************************)
C8_PopulationStandardDeviation ==
    Past("scale") =>
        \A c \in FeatureSet :
            LET d == Devs(c)
                D == Squares(d)
            IN  D # 0 =>
                  \A i \in 1..N :
                      /\ X[i][c].sgn = Sign(d[i])
                      /\ X[i][c].sq.den > 0
                      /\ X[i][c].sq.num * D = X[i][c].sq.den * N * d[i] * d[i]

\* Three records with monetary 10, 10, 40: z^2 = 1/2, 1/2, 2.
C8_Witness ==
    /\ Past("scale")
    /\ N = 3
    /\ Feature("Monetary") = <<10, 10, 40>>
    /\ X[3].Monetary = [sgn |-> 1, sq |-> [num |-> 2, den |-> 1]]
    /\ X[1].Monetary = [sgn |-> -1, sq |-> [num |-> 1, den |-> 2]]

\* C8 as stated: the sample standard deviation (divisor N - 1).
C8_SampleStandardDeviation ==
    Past("scale") =>
        \A c \in FeatureSet :
            LET d == Devs(c)
                D == Squares(d)
            IN  D # 0 =>
                  \A i \in 1..N :
                      /\ X[i][c].sgn = Sign(d[i])
                      /\ X[i][c].sq.den > 0
                      /\ X[i][c].sq.num * D = X[i][c].sq.den * (N - 1) * d[i] * d[i]

(***************************************************************************)
(* C9: only the missing rules file is recovered from.  Without the file a  *)
(* warning stands in for the rules table and the run goes on to the        *)
(* download button and the footer; with it the first ten rules (all of     *)
(* them when there are fewer) are shown, cleaned, and there is no warning. *)
(* A missing transaction or customer file ends the run before any filter,  *)
(* metric or chart.                                                        *)
(***************************************************************************)
C9_OnlyRulesFileGuarded ==
    /\ At = "rules" => pc # "crashed"
    /\ Past("rules") =>
          /\ pc \in {"download", "footer", "done"}
          /\ ~disk.rules.exists =>
                /\ InSeq("warning", out)
                /\ out[Len(out)] = "warning" \/ InSeq("download_button", out)
                /\ shown_rules = EmptyFrame
          /\ disk.rules.exists =>
                /\ ~InSeq("warning", out)
                /\ Len(shown_rules.rows)
                      = (IF Len(disk.rules.lines) < 10 THEN Len(disk.rules.lines) ELSE 10)
                /\ \A i \in 1..Len(shown_rules.rows) :
                      /\ shown_rules.rows[i].support = disk.rules.lines[i][3]
                      /\ shown_rules.rows[i].confidence = disk.rules.lines[i][4]
                      /\ shown_rules.rows[i].lift = disk.rules.lines[i][5]
                      /\ shown_rules.rows[i].antecedents = <<disk.rules.lines[i][1][4]>>
                      /\ shown_rules.rows[i].consequents = <<disk.rules.lines[i][2][4]>>
    /\ pc = "done" =>
          /\ InSeq("download_button", out)
          /\ out[Len(out) - 1] = "caption"
    /\ error.type = "FileNotFoundError" =>
          /\ pc = "crashed"
          /\ error.at \in {"load_df", "load_rfm"}
          /\ out = <<"markdown", "image", "title">>
    /\ pc = "crashed" /\ error.at = "load_df" => ~disk.clothing
    /\ pc = "crashed" /\ error.at = "load_rfm" => ~disk.rfm.exists
    /\ Past("load_df") => disk.clothing
    /\ Past("load_rfm") => disk.rfm.exists

\* A finished run that found no rules file.
C9_Witness ==
    /\ pc = "done"
    /\ ~disk.rules.exists
    /\ InSeq("warning", out)
    /\ InSeq("download_button", out)

(***************************************************************************)
(* C10: the selected label is one of the labels of the table, so on a      *)
(* non-empty table the filtered frame has at least one record; it is empty *)
(* only when the table is.                                                 *)
(***************************************************************************)
C10_SelectionFromTable ==
    Past("select") =>
        /\ N > 0 =>
              /\ \E i \in 1..N : rfm.rows[i].Cluster = selected_cluster
              /\ Len(filtered_rfm.rows) >= 1
        /\ Len(filtered_rfm.rows) = 0 => N = 0

\* Every record is in cluster 1, and cluster 1 is selected.
C10_Witness ==
    /\ Past("select")
    /\ N = 3
    /\ \A i \in 1..N : rfm.rows[i].Cluster = 1
    /\ selected_cluster = 1
    /\ Len(filtered_rfm.rows) = 3

====
